---- MODULE Spec2Model ----
(***************************************************************************)
(* Audio-reactive GLSL pipeline of Web-LLM-VJ.                             *)
(*                                                                         *)
(*   App.tsx                   startVisualization, stopVisualization,      *)
(*                             regenerateShader, the result subscriber     *)
(*                             (retry / rollback) and the unmount cleanup  *)
(*   GeminiGLSLGenerator.ts    generateGLSL (function-calling variant with *)
(*                             progress listeners), its helpers, destroy   *)
(*   GLSLRenderer.ts           updateShader, destroy                       *)
(*                                                                         *)
(* A shader text is a sequence of tokens: "main" is the text 'void main()',*)
(* "prec" the word 'precision', "fence" a markdown fence, "sp" white       *)
(* space and "x" any other text.  The length of a text is its number of    *)
(* tokens.                                                                 *)
(***************************************************************************)
EXTENDS Integers, Sequences, FiniteSets, TLC

VARIABLES
    mounted,            \* App: the component is mounted
    isRunning,          \* App state isRunning
    appIsGenerating,    \* App state isGenerating
    error,              \* App state error
    retryCount,         \* App retryCountRef.current
    glslGeneratorRef,   \* App glslGeneratorRef.current, 0 is null
    rendererRef,        \* App rendererRef.current is not null
    pendingRetries,     \* subscriber invocations waiting in the backoff timer
    retryOwners,        \* the generator each of them was subscribed to
    pendingRollbacks,   \* subscriber invocations about to call rollback
    nextGen,            \* number of generator instances constructed so far
    handles,            \* unsubscribe handles returned and kept by a caller
    isGenerating,       \* generator field isGenerating, per instance
    listeners,          \* generator field listeners, per instance
    progressListeners,  \* generator field progressListeners, per instance
    destroyed,          \* destroy() has been called on the instance
    cycles,             \* generateGLSL activations that passed the guard
    sandbox,            \* renderer field sandbox is not null
    currentShader,      \* renderer field currentShader
    loaded,             \* program loaded in the sandbox
    lastGoodCode,       \* renderer: last program that activated
    canvasSize,         \* renderer: canvas.width and canvas.height
    uniforms,           \* uniform values held by the sandbox
    out,                \* what the last step did, in order
    clean,              \* history: unbroken automatic run from counter 0
    rollbacksIssued,    \* history: rollback instructions in the clean run
    retriesIssued,      \* history: retry requests since the counter was 0
    audioElementRef,    \* App audioElementRef.current is not null
    analyzers,          \* AudioInput instances that hold the App's subscriber
    audioSensitivity,   \* App audioSensitivityRef.current
    subscribedSensitivity, \* the sensitivity when the subscriber was made
    frequencyData,      \* the frequency array of an audio frame
    bands,              \* the band energies computed from it
    now,                \* Date.now(), in seconds
    lastGenerationTime, \* interval generator: field lastGenerationTime
    intervalGenerating, \* interval generator: field isGenerating
    requestTimes,       \* history: when each provider request was started
    outstandingRequests \* history: provider requests not yet settled

vars == <<mounted, isRunning, appIsGenerating, error, retryCount,
          glslGeneratorRef, rendererRef, pendingRetries, retryOwners, pendingRollbacks,
          nextGen, handles, isGenerating, listeners, progressListeners, destroyed,
          cycles, sandbox, currentShader, loaded, lastGoodCode, canvasSize,
          uniforms, out, clean, rollbacksIssued, retriesIssued,
          audioElementRef, analyzers, audioSensitivity, subscribedSensitivity,
          frequencyData, bands, now, lastGenerationTime, intervalGenerating,
          requestTimes, outstandingRequests>>

appVars == <<mounted, isRunning, appIsGenerating, error, retryCount,
             glslGeneratorRef, rendererRef, pendingRetries, retryOwners, pendingRollbacks>>
genVars == <<nextGen, handles, isGenerating, listeners, progressListeners, destroyed>>
surfVars == <<canvasSize, uniforms>>
rendVars == <<sandbox, currentShader, loaded, lastGoodCode, surfVars>>
histVars == <<clean, rollbacksIssued, retriesIssued>>
audioVars == <<audioElementRef, analyzers, audioSensitivity, subscribedSensitivity>>
bandVars == <<frequencyData, bands>>
intervalVars == <<now, lastGenerationTime, intervalGenerating, requestTimes,
                  outstandingRequests>>
sideVars == <<bandVars, intervalVars>>

----------------------------------------------------------------------------
(* Bounds *)

MaxGens == 1        \* generator instances constructed in one run
MaxChunks == 2      \* stream chunks of one provider response
MaxPending == 1     \* subscriber invocations waiting at the same time
MaxCycles == 2      \* generateGLSL activations in flight at the same time
RetryCap == 6       \* no new request is started at this counter value
MaxSize == 2        \* window sizes are 1..MaxSize
MaxValue == 1       \* uniform values are 0..MaxValue
MaxBins == 10       \* frequency arrays have 0..MaxBins bins
MaxTime == 9        \* the clock of the interval generator stops here
MaxSensitivity == 2 \* slider positions are 1..MaxSensitivity

(* Program constants *)

maxRetries == 5
chunkSize == 50

ErrNone == "none"
ErrMaxRetries == "Failed to compile shader after 5 attempts"
ErrApiKey == "Please enter your API key"
ErrAudioFile == "Please select an audio file"
ErrPrompt == "Please enter a prompt for the shader"
ErrProvider == "Audio file upload is only supported with Gemini"
ErrSource == "message of the rejection of getUserMedia"

(* the positions of the sensitivity slider, in whole multiples *)
Sensitivities == 1..MaxSensitivity

Gens == 1..(MaxGens + 1)

(* the generator instances startVisualization constructs *)
StartedGens == 1..MaxGens

(* the uniforms the application sets every audio frame *)
UniformNames == {"u_volume", "u_bass"}
UniformValues == 0..MaxValue
WindowSizes == 1..MaxSize

----------------------------------------------------------------------------
(* Texts *)

X(n) == [i \in 1..n |-> "x"]

Includes(s, t) == \E i \in DOMAIN s : s[i] = t

IsFence(t) == t = "fence"

StripFences(s) == SelectSeq(s, LAMBDA t : ~IsFence(t))

RECURSIVE TrimLeft(_)
TrimLeft(s) == IF s # <<>> /\ Head(s) = "sp" THEN TrimLeft(Tail(s)) ELSE s

RECURSIVE TrimRight(_)
TrimRight(s) ==
    IF s # <<>> /\ s[Len(s)] = "sp" THEN TrimRight(SubSeq(s, 1, Len(s) - 1))
    ELSE s

Trim(s) == TrimRight(TrimLeft(s))

Substring(s, n) == SubSeq(s, 1, IF n < Len(s) THEN n ELSE Len(s))

PrecisionPrefix == <<"x", "prec", "x", "sp">>

getDefaultShader == <<"prec", "x", "main", "x">>

defaultShader == <<"sp", "x", "prec", "x", "main", "x">>

(* a processShaderCode without the entry-point test *)
processShaderCodeUnchecked(code) ==
    LET processedCode == StripFences(code) IN
    IF ~Includes(processedCode, "prec")
    THEN Trim(PrecisionPrefix \o processedCode)
    ELSE Trim(processedCode)

processShaderCode(code) ==
    LET processedCode == StripFences(code) IN
    IF ~Includes(processedCode, "main") THEN getDefaultShader
    ELSE IF ~Includes(processedCode, "prec")
         THEN Trim(PrecisionPrefix \o processedCode)
         ELSE Trim(processedCode)

(* an extractGLSL without the entry-point test *)
extractGLSLRaw(text) == Trim(StripFences(text))

extractGLSL(text) ==
    LET code == StripFences(text) IN
    IF ~Includes(code, "main") THEN Trim(getDefaultShader) ELSE Trim(code)

(* what the provider may put in a function call's shaderCode *)
CandShort == <<"prec", "x", "main", "x">> \o X(2)
CandLong == <<"x", "main">> \o X(chunkSize + 10) \o <<"sp">>
CandFenced == <<"fence", "x", "fence">>
Candidates == {CandShort, CandLong, CandFenced, <<>>}

(* a shaderCode argument that is not a string *)
undefined == <<"undefined">>

(* what the aggregated text response may be on the fallback path *)
Texts == {<<"fence", "prec", "main", "x", "fence", "sp">>, <<"x">>}

----------------------------------------------------------------------------
(* Events recorded in out *)

Ev(t, g, c, f, p) == [type |-> t, gen |-> g, code |-> c, flag |-> f, prev |-> p]

HasEv(s, t) == \E i \in DOMAIN s : s[i].type = t

(* progress events: a stream chunk, the first and the later events of the *)
(* typing animation, the first event of the fallback, the final event      *)
ProgressTypes == {"chunk", "anim0", "anim", "fallback", "final"}

(* what updateShader did with the candidate *)
ActivationTypes == {"loaded", "failed", "unchanged", "nosandbox"}

----------------------------------------------------------------------------
(* GLSLRenderer *)

Rend == [sandbox |-> sandbox, currentShader |-> currentShader,
         loaded |-> loaded, outcome |-> "none"]

(* the precision statement updateShader puts in front of the text it loads *)
withPrecision(shaderCode) ==
    IF ~Includes(shaderCode, "prec") THEN PrecisionPrefix \o shaderCode
    ELSE shaderCode

(* updateShader that records the candidate as current before loading it *)
updateShaderEager(r, shaderCode, loadOk) ==
    IF ~r.sandbox THEN [r EXCEPT !.outcome = "nosandbox"]
    ELSE IF shaderCode = r.currentShader THEN [r EXCEPT !.outcome = "unchanged"]
    ELSE IF loadOk
         THEN [r EXCEPT !.loaded = withPrecision(shaderCode),
                        !.currentShader = shaderCode,
                        !.outcome = "loaded"]
         ELSE [r EXCEPT !.currentShader = shaderCode, !.outcome = "failed"]

(* updateShader whose failed load leaves the sandbox without a program *)
updateShaderLossy(r, shaderCode, loadOk) ==
    IF ~r.sandbox THEN [r EXCEPT !.outcome = "nosandbox"]
    ELSE IF shaderCode = r.currentShader THEN [r EXCEPT !.outcome = "unchanged"]
    ELSE IF loadOk
         THEN [r EXCEPT !.loaded = withPrecision(shaderCode),
                        !.currentShader = shaderCode,
                        !.outcome = "loaded"]
         ELSE [r EXCEPT !.loaded = <<>>, !.outcome = "failed"]

(* updateShader that leaves currentShader alone after a load *)
updateShaderStale(r, shaderCode, loadOk) ==
    IF ~r.sandbox THEN [r EXCEPT !.outcome = "nosandbox"]
    ELSE IF shaderCode = r.currentShader THEN [r EXCEPT !.outcome = "unchanged"]
    ELSE IF shaderCode # undefined /\ loadOk
         THEN [r EXCEPT !.loaded = withPrecision(shaderCode),
                        !.outcome = "loaded"]
         ELSE [r EXCEPT !.outcome = "failed"]

(* updateShader that tests for the precision statement before its try *)
updateShaderUnguarded(r, shaderCode, loadOk) ==
    IF ~r.sandbox THEN [r EXCEPT !.outcome = "nosandbox"]
    ELSE IF shaderCode = r.currentShader THEN [r EXCEPT !.outcome = "unchanged"]
    ELSE IF shaderCode = undefined THEN [r EXCEPT !.outcome = "threw"]
    ELSE IF loadOk
         THEN [r EXCEPT !.loaded = withPrecision(shaderCode),
                        !.currentShader = shaderCode,
                        !.outcome = "loaded"]
         ELSE [r EXCEPT !.outcome = "failed"]

(* updateShader without the comparison with currentShader *)
updateShaderNoSkip(r, shaderCode, loadOk) ==
    IF ~r.sandbox THEN [r EXCEPT !.outcome = "nosandbox"]
    ELSE IF shaderCode # undefined /\ loadOk
         THEN [r EXCEPT !.loaded = withPrecision(shaderCode),
                        !.currentShader = shaderCode,
                        !.outcome = "loaded"]
         ELSE [r EXCEPT !.outcome = "failed"]

(* updateShader: loadOk is whether sandbox.load returns or throws; the    *)
(* includes() call on a shaderCode that is not a string throws as well,    *)
(* and both are inside the try block                                       *)
updateShader(r, shaderCode, loadOk) ==
    IF ~r.sandbox THEN [r EXCEPT !.outcome = "nosandbox"]
    ELSE IF shaderCode = r.currentShader THEN [r EXCEPT !.outcome = "unchanged"]
    ELSE IF shaderCode # undefined /\ loadOk
         THEN [r EXCEPT !.loaded = withPrecision(shaderCode),
                        !.currentShader = shaderCode,
                        !.outcome = "loaded"]
         ELSE [r EXCEPT !.outcome = "failed"]

(* a constructor that loads no program *)
loadDefaultShaderSkip(r) == r

(* loadDefaultShader, called by init() right after the sandbox is made *)
loadDefaultShader(r) == updateShader(r, defaultShader, TRUE)

(* setUniform: setOk is whether sandbox.setUniform returns or throws *)
setUniform(u, hasSandbox, name, value, setOk) ==
    IF hasSandbox /\ setOk THEN [u EXCEPT ![name] = value] ELSE u

(* a setUniform without the sandbox check and without the try *)
setUniformResultBare(hasSandbox, setOk) ==
    IF hasSandbox /\ setOk THEN "uniformSet" ELSE "uniformThrew"

(* setUniform: how the call ends. Without a sandbox it returns at once;   *)
(* a throw of sandbox.setUniform is caught and logged                      *)
setUniformResult(hasSandbox, setOk) ==
    IF ~hasSandbox THEN "uniformSkipped"
    ELSE IF setOk THEN "uniformSet" ELSE "uniformCaught"

UniformEvents == {"uniformSet", "uniformCaught", "uniformSkipped", "uniformThrew"}

(* resizeCanvas: the canvas takes the size of the window *)
resizeCanvas(innerSize) == innerSize

(* a resizeCanvas that drops the program of the sandbox *)
resizeProgramDrop(r) == [r EXCEPT !.currentShader = <<>>, !.loaded = <<>>]

(* resizeCanvas assigns canvas.width and canvas.height and nothing else:  *)
(* the sandbox, currentShader and the loaded program after it              *)
resizeProgram(r) == r

(* a destroy without the check of the sandbox *)
destroySandboxAlways(hasSandbox) == TRUE

(* destroy: whether sandbox.destroy() is called *)
destroySandbox(hasSandbox) == hasSandbox

(* destroy: how the call ends; sandbox.destroy() on null would throw *)
destroyResult(hasSandbox) ==
    IF destroySandbox(hasSandbox) /\ ~hasSandbox THEN "destroyThrew" ELSE "destroy"

(* the boolean the caller of updateShader awaits *)
activationResult(outcome, skipRes) ==
    CASE outcome = "loaded" -> TRUE
      [] outcome = "failed" -> FALSE
      [] outcome = "nosandbox" -> FALSE
      [] OTHER -> skipRes

(* the renderer records an activated program as the last good one *)
recordLastGood(last, outcome, shaderCode) ==
    IF outcome = "loaded" THEN shaderCode ELSE last

(* rollback: re-activate the last good program, or the default if none;   *)
(* surfaceOk is whether the surface accepts it                             *)
rollbackTarget(last) == IF last # <<>> THEN last ELSE defaultShader

rollback(r, last, surfaceOk) ==
    IF r.sandbox /\ surfaceOk
    THEN [r EXCEPT !.loaded = withPrecision(rollbackTarget(last)),
                   !.currentShader = rollbackTarget(last),
                   !.outcome = "loaded"]
    ELSE [r EXCEPT !.outcome = "failed"]

----------------------------------------------------------------------------
(* GeminiGLSLGenerator *)

NewCycle(g) == [gen |-> g, pc |-> "read", acc |-> <<>>, found |-> FALSE,
                chunks |-> 0, i |-> 0, plen |-> -1, stale |-> FALSE]

RemoveAt(s, k) == [j \in 1..(Len(s) - 1) |-> IF j < k THEN s[j] ELSE s[j + 1]]

(* a guard that lets every call through *)
InFlightGuardOff(flag) == FALSE

(* the guard at the head of generateGLSL *)
InFlightGuard(flag) == flag

(* a call of generateGLSL on instance g: the new isGenerating, cycles and *)
(* the event of the call; flag of the event: the call was a no-op          *)
generateGLSL(g) ==
    IF InFlightGuard(isGenerating[g])
    THEN [isGenerating |-> isGenerating, cycles |-> cycles,
          ev |-> <<Ev("call", g, <<>>, TRUE, -1)>>]
    ELSE [isGenerating |-> [isGenerating EXCEPT ![g] = TRUE],
          cycles |-> Append(cycles, NewCycle(g)),
          ev |-> <<Ev("call", g, <<>>, FALSE, -1)>>]

(* a subscribe that keeps its callbacks in an array *)
subscribeArray(ls, callback) == Append(ls, callback)

(* subscribe and subscribeProgress: Set.add keeps a callback that is      *)
(* already there in its place and puts a new one last                      *)
subscribe(ls, callback) ==
    IF Includes(ls, callback) THEN ls ELSE Append(ls, callback)

(* the handle returned by subscribe and subscribeProgress: Set.delete *)
unsubscribe(ls, callback) == SelectSeq(ls, LAMBDA c : c # callback)

(* a notifyListeners that calls every listener twice *)
notifyListenersTwice(g, code) ==
    [i \in 1..(2 * Len(listeners[g])) |->
        Ev("result", g, code, FALSE, ((i - 1) % Len(listeners[g])) + 1)]

(* notifyListeners: Set.forEach calls every result listener once, in      *)
(* insertion order; prev of the event is the place of the listener called  *)
notifyListeners(g, code) ==
    [i \in 1..Len(listeners[g]) |-> Ev("result", g, code, FALSE, i)]

(* a notifyProgressListeners that calls listeners removed by destroy() *)
notifyProgressListenersAll(g, tag, code, isComplete, prev) ==
    <<Ev(tag, g, code, isComplete, prev)>>

(* notifyProgressListeners: the events delivered and the App's listener *)
notifyProgressListeners(g, tag, code, isComplete, prev) ==
    [i \in 1..Len(progressListeners[g]) |-> Ev(tag, g, code, isComplete, prev)]

(* a typing animation that shows the window at offset i, not the prefix *)
animPartialWindow(code, i) ==
    SubSeq(code, i + 1, IF i + chunkSize < Len(code) THEN i + chunkSize
                        ELSE Len(code))

(* animateCodeDisplay: the text shown at offset i of the typing animation *)
animPartial(code, i) == Substring(code, i + chunkSize)

(* a typing animation whose offset stands still *)
animAdvanceNone(i) == i

(* animateCodeDisplay: the loop adds chunkSize to its offset every step *)
animAdvance(i) == i + chunkSize

(* a destroy() that keeps the listeners *)
destroyListenersKeep(ls) == ls

(* destroy() of a generator: the listener sets afterwards *)
destroyListeners(ls) == <<>>

(* the App's progress listener: setIsGenerating(!progress.isComplete) *)
AfterProgress(g, isComplete, old) ==
    IF Includes(progressListeners[g], "app") THEN ~isComplete ELSE old

(* a try block that starts after the audio file has been read *)
tryBlockLate == {"request", "stream", "anim", "animEnd", "fallbackWait"}

(* the positions of generateGLSL that are inside its try block *)
tryBlock == {"read", "request", "stream", "anim", "animEnd", "fallbackWait"}

(* a finally block that leaves the flag set *)
afterFinallyKeep(flag) == flag

(* the finally block of generateGLSL: the isGenerating flag afterwards *)
afterFinally(flag) == FALSE

Outstanding(g) ==
    Cardinality({k \in DOMAIN cycles :
                    cycles[k].gen = g /\ cycles[k].pc \in {"request", "stream"}})

----------------------------------------------------------------------------
(* Initial state: the App is mounted, its effect has constructed the      *)
(* renderer, and the renderer's init() has loaded the default shader.      *)

(* no audio element, no AudioInput yet; the slider is at 1.0 *)
AudioInit ==
    /\ audioElementRef = FALSE
    /\ analyzers = 0
    /\ audioSensitivity = 1
    /\ subscribedSensitivity = 1

(* the band energies before any has been computed *)
NoBands == <<>>

(* no frame has been analysed and no interval generator has run *)
SideInit ==
    /\ frequencyData = <<>>
    /\ bands = NoBands
    /\ now = 0
    /\ lastGenerationTime = 0
    /\ intervalGenerating = FALSE
    /\ requestTimes = <<>>
    /\ outstandingRequests = 0

Init ==
    /\ mounted = TRUE
    /\ isRunning = FALSE
    /\ appIsGenerating = FALSE
    /\ error = ErrNone
    /\ retryCount = 0
    /\ glslGeneratorRef = 0
    /\ rendererRef = TRUE
    /\ pendingRetries = 0
    /\ retryOwners = <<>>
    /\ pendingRollbacks = 0
    /\ nextGen = 0
    /\ handles = {}
    /\ isGenerating = [g \in Gens |-> FALSE]
    /\ listeners = [g \in Gens |-> <<>>]
    /\ progressListeners = [g \in Gens |-> <<>>]
    /\ destroyed = [g \in Gens |-> FALSE]
    /\ cycles = <<>>
    /\ sandbox = TRUE
    /\ currentShader = defaultShader
    /\ loaded = withPrecision(defaultShader)
    /\ lastGoodCode = defaultShader
    /\ canvasSize = 1
    /\ uniforms = [n \in UniformNames |-> 0]
    /\ out = <<>>
    /\ clean = FALSE
    /\ rollbacksIssued = 0
    /\ retriesIssued = 0
    /\ AudioInit
    /\ SideInit

----------------------------------------------------------------------------
(* App: the result subscriber *)

(* a retry test that is off by one *)
ShouldRetryInclusive(count) == count <= maxRetries

ShouldRetry(count) == count < maxRetries

(* an accept branch that keeps the counter *)
acceptCountKeep(count) == count

(* the counter after an accepted candidate *)
acceptCount(count) == 0

(* a subscriber that starts the playback whatever updateShader returned *)
playbackAlways(success, hasElement) ==
    IF hasElement THEN <<Ev("play", 0, <<>>, success, -1)>> ELSE <<>>

(* the accept branch calls play() on the audio element, if the App holds  *)
(* one; no other branch of the subscriber does                             *)
playback(success, hasElement) ==
    IF success /\ hasElement THEN <<Ev("play", 0, <<>>, success, -1)>> ELSE <<>>

(* notifyListeners(code) at the end of cycle k, the subscriber it runs,   *)
(* and the finally block of generateGLSL.  pre: the events delivered       *)
(* before it in the same step; gen0: the App's isGenerating after them.    *)
Deliver(k, code, pre, gen0) ==
    LET g == cycles[k].gen
        notified == Includes(listeners[g], "app")
        called == notified /\ rendererRef
        res == notifyListeners(g, code)
    IN
    \E loadOk \in BOOLEAN, skipRes \in BOOLEAN :
        LET r == updateShader(Rend, code, loadOk)
            success == activationResult(r.outcome, skipRes)
            act == <<Ev(r.outcome, g, code, success, -1)>>
            end == <<Ev("end", g, code, FALSE, -1)>>
            count == retryCount + 1
        IN
        /\ cycles' = RemoveAt(cycles, k)
        /\ isGenerating' = [isGenerating EXCEPT ![g] = afterFinally(@)]
        /\ UNCHANGED <<audioVars, sideVars, mounted, isRunning, glslGeneratorRef, rendererRef,
                       nextGen, handles, listeners, progressListeners, destroyed,
                       sandbox, surfVars>>
        /\ IF ~called
           THEN /\ out' = pre \o res \o end
                /\ appIsGenerating' = gen0
                /\ UNCHANGED <<error, retryCount, pendingRetries, retryOwners,
                               pendingRollbacks, currentShader, loaded,
                               lastGoodCode, histVars>>
           ELSE /\ currentShader' = r.currentShader
                /\ loaded' = r.loaded
                /\ lastGoodCode' = recordLastGood(lastGoodCode, r.outcome, code)
                /\ IF success
                   THEN /\ retryCount' = acceptCount(retryCount)
                        /\ out' = pre \o res \o act
                                \o <<Ev("accept", g, code, TRUE, retryCount)>>
                                \o playback(success, audioElementRef)
                                \o end
                        /\ appIsGenerating' = gen0
                        /\ clean' = FALSE
                        /\ retriesIssued' = 0
                        /\ UNCHANGED <<error, pendingRetries, retryOwners, pendingRollbacks,
                                       rollbacksIssued>>
                   ELSE IF ShouldRetry(count)
                   THEN /\ retryCount' = count
                        /\ pendingRetries < MaxPending
                        /\ pendingRetries' = pendingRetries + 1
                        /\ retryOwners' = Append(retryOwners, g)
                        /\ out' = pre \o res \o act
                                \o <<Ev("reject", g, code, TRUE, retryCount)>>
                                \o playback(success, audioElementRef)
                                \o end
                        /\ appIsGenerating' = gen0
                        /\ UNCHANGED <<error, pendingRollbacks, histVars>>
                   ELSE /\ retryCount' = count
                        /\ error' = ErrMaxRetries
                        /\ appIsGenerating' = FALSE
                        /\ pendingRollbacks < MaxPending
                        /\ pendingRollbacks' =
                               IF glslGeneratorRef # 0
                               THEN pendingRollbacks + 1 ELSE pendingRollbacks
                        /\ rollbacksIssued' =
                               IF clean /\ glslGeneratorRef # 0
                               THEN rollbacksIssued + 1 ELSE rollbacksIssued
                        /\ out' = pre \o res \o act
                                \o <<Ev("reject", g, code, FALSE, retryCount),
                                     Ev("error", g, code, FALSE, -1)>>
                                \o playback(success, audioElementRef)
                                \o end
                        /\ UNCHANGED <<pendingRetries, retryOwners, clean, retriesIssued>>

----------------------------------------------------------------------------
(* GeminiGLSLGenerator.generateGLSL, one action per resumption *)

(* fileToBase64 resolves and generateContentStream is called *)
ReadDone(k) ==
    /\ cycles[k].pc = "read"
    /\ cycles' = [cycles EXCEPT ![k].pc = "request"]
    /\ out' = <<Ev("request", cycles[k].gen, <<>>, cycles[k].stale, -1)>>
    /\ UNCHANGED <<appVars, audioVars, sideVars, genVars, rendVars, histVars>>

(* generateContentStream resolves *)
StreamStart(k) ==
    /\ cycles[k].pc = "request"
    /\ cycles' = [cycles EXCEPT ![k].pc = "stream"]
    /\ out' = <<>>
    /\ UNCHANGED <<appVars, audioVars, sideVars, genVars, rendVars, histVars>>

(* one chunk of the stream: without a function call, with a call of       *)
(* another name, or with a call of generate_glsl_shader carrying c         *)
Chunk(k) ==
    LET cy == cycles[k] g == cy.gen IN
    /\ cy.pc = "stream"
    /\ cy.chunks < MaxChunks
    /\ \/ /\ cycles' = [cycles EXCEPT ![k].chunks = cy.chunks + 1]
          /\ out' = <<>>
          /\ UNCHANGED appIsGenerating
       \/ /\ cycles' = [cycles EXCEPT ![k].chunks = cy.chunks + 1,
                                      ![k].found = TRUE]
          /\ out' = <<>>
          /\ UNCHANGED appIsGenerating
       \/ \E c \in Candidates :
             LET evs == notifyProgressListeners(g, "chunk", c, FALSE, cy.plen) IN
             /\ cycles' = [cycles EXCEPT
                              ![k].chunks = cy.chunks + 1,
                              ![k].found = TRUE,
                              ![k].acc = c,
                              ![k].plen = IF evs # <<>> THEN Len(c) ELSE cy.plen]
             /\ out' = evs
             /\ appIsGenerating' = AfterProgress(g, FALSE, appIsGenerating)
    /\ UNCHANGED <<audioVars, sideVars, mounted, isRunning, error, retryCount, glslGeneratorRef,
                   rendererRef, pendingRetries, retryOwners, pendingRollbacks, genVars,
                   rendVars, histVars>>

(* the stream ends: the typing animation starts, or the fallback          *)
(* extracts the code from the aggregated text                              *)
StreamEnd(k) ==
    LET cy == cycles[k] g == cy.gen IN
    /\ cy.pc = "stream"
    /\ IF cy.found /\ cy.acc # <<>>
       THEN LET partialCode == animPartial(cy.acc, 0)
                evs == notifyProgressListeners(g, "anim0", partialCode, FALSE,
                                               cy.plen)
            IN
            /\ cycles' = [cycles EXCEPT
                             ![k].pc = "anim",
                             ![k].i = 0,
                             ![k].plen = IF evs # <<>> THEN Len(partialCode)
                                         ELSE cy.plen]
            /\ out' = evs
       ELSE \E text \in Texts :
            LET glslCode == extractGLSL(text)
                evs == notifyProgressListeners(g, "fallback", glslCode, FALSE,
                                               cy.plen)
            IN
            /\ cycles' = [cycles EXCEPT
                             ![k].pc = "fallbackWait",
                             ![k].acc = glslCode,
                             ![k].plen = IF evs # <<>> THEN Len(glslCode)
                                         ELSE cy.plen]
            /\ out' = evs
    /\ appIsGenerating' = AfterProgress(g, FALSE, appIsGenerating)
    /\ UNCHANGED <<audioVars, sideVars, mounted, isRunning, error, retryCount, glslGeneratorRef,
                   rendererRef, pendingRetries, retryOwners, pendingRollbacks, genVars,
                   rendVars, histVars>>

(* animateCodeDisplay: the 30 ms timer of one step elapses *)
AnimStep(k) ==
    LET cy == cycles[k]
        g == cy.gen
        i == animAdvance(cy.i)
        more == i < Len(cy.acc)
        partialCode == IF more THEN animPartial(cy.acc, i) ELSE cy.acc
        evs == notifyProgressListeners(g, "anim", partialCode, FALSE, cy.plen)
    IN
    /\ cy.pc = "anim"
    /\ cycles' = [cycles EXCEPT
                     ![k].pc = IF more THEN "anim" ELSE "animEnd",
                     ![k].i = i,
                     ![k].plen = IF evs # <<>> THEN Len(partialCode)
                                 ELSE cy.plen]
    /\ out' = evs
    /\ appIsGenerating' = AfterProgress(g, FALSE, appIsGenerating)
    /\ UNCHANGED <<audioVars, sideVars, mounted, isRunning, error, retryCount, glslGeneratorRef,
                   rendererRef, pendingRetries, retryOwners, pendingRollbacks, genVars,
                   rendVars, histVars>>

(* processShaderCode of every text the function call can carry *)
processedCandidates == [c \in Candidates |-> processShaderCode(c)]

(* the 500 ms pause after the animation elapses: process and deliver *)
Finish(k) ==
    LET cy == cycles[k]
        g == cy.gen
        processedShader == processedCandidates[cy.acc]
    IN
    /\ cy.pc = "animEnd"
    /\ Deliver(k, processedShader,
               notifyProgressListeners(g, "final", processedShader, TRUE, cy.plen),
               AfterProgress(g, TRUE, appIsGenerating))

(* the 1500 ms pause of the fallback path elapses *)
FallbackFinish(k) ==
    LET cy == cycles[k] g == cy.gen IN
    /\ cy.pc = "fallbackWait"
    /\ Deliver(k, cy.acc,
               notifyProgressListeners(g, "final", cy.acc, TRUE, cy.plen),
               AfterProgress(g, TRUE, appIsGenerating))

(* an await inside the try block rejects: the catch block delivers the    *)
(* default shader                                                          *)
Fail(k) ==
    LET g == cycles[k].gen IN
    /\ cycles[k].pc \in {"read", "request", "stream"}
    /\ IF cycles[k].pc \in tryBlock
       THEN Deliver(k, getDefaultShader,
                    <<Ev("caught", g, <<>>, FALSE, -1)>>, appIsGenerating)
       ELSE /\ cycles' = RemoveAt(cycles, k)
            /\ out' = <<Ev("unhandled", g, <<>>, FALSE, -1)>>
            /\ UNCHANGED <<appVars, audioVars, sideVars, genVars, rendVars, histVars>>

----------------------------------------------------------------------------
(* App: user actions, timers and the unmount cleanup *)

(* a new request may start: keeps the counters of the model bounded *)
MayStart == retryCount < RetryCap /\ Len(cycles) < MaxCycles

(* the condition of a clean automatic run: counter 0, nothing pending *)
CleanStart == retryCount = 0 /\ pendingRetries = 0 /\ pendingRollbacks = 0

(* handlers of the buttons that reset the retry counter *)
handlerRetryCountReset(count) == 0

(* startVisualization, stopVisualization and regenerateShader do not      *)
(* assign retryCountRef: the counter after each of them                    *)
handlerRetryCount(count) == count

(* a start that makes the AudioInput before it asks for the microphone *)
attachAnalyzerAlways(count, opened) == count + 1

(* new AudioInput() and its subscriber come after the source is open *)
attachAnalyzer(count, opened) == IF opened THEN count + 1 ELSE count

(* the Start button: inputs are valid, the generator is constructed, the  *)
(* App subscribes and calls generateGLSL                                   *)
startVisualizationWith(n, mode, read) ==
    LET g == nextGen + 1 IN
    /\ mounted /\ ~isRunning /\ ~appIsGenerating
    /\ nextGen < n
    /\ MayStart
    /\ error' = ErrNone
    /\ nextGen' = g
    /\ glslGeneratorRef' = g
    /\ listeners' = [listeners EXCEPT ![g] = subscribe(@, "app")]
    /\ progressListeners' = [progressListeners EXCEPT ![g] = subscribe(@, "app")]
    /\ isRunning' = TRUE
    /\ isGenerating' = generateGLSL(g).isGenerating
    /\ cycles' = generateGLSL(g).cycles
    /\ out' = read \o <<Ev("start", g, <<>>, FALSE, -1)>> \o generateGLSL(g).ev
    /\ clean' = CleanStart
    /\ rollbacksIssued' = 0
    /\ retriesIssued' = 0
    /\ retryCount' = handlerRetryCount(retryCount)
    /\ audioElementRef' = (IF mode = "file" THEN TRUE ELSE audioElementRef)
    /\ analyzers' = attachAnalyzer(analyzers, TRUE)
    /\ subscribedSensitivity' = audioSensitivity
    /\ UNCHANGED <<sideVars, audioSensitivity, mounted, appIsGenerating,
                   rendererRef, pendingRetries,
                   retryOwners, pendingRollbacks, destroyed, handles,
                   rendVars>>

(* the Start button in file mode, with a key and a file *)
startVisualizationUpTo(n) == startVisualizationWith(n, "file", <<>>)

(* the Start button, as often as the bound allows *)
startVisualization == startVisualizationUpTo(MaxGens)

(* the Start button, allowed once more *)
startAgain == startVisualizationUpTo(MaxGens + 1)

(* the Stop button *)
stopVisualization ==
    /\ mounted /\ isRunning /\ ~appIsGenerating
    /\ IF glslGeneratorRef # 0
       THEN /\ listeners' = [listeners EXCEPT
                   ![glslGeneratorRef] = destroyListeners(@)]
            /\ progressListeners' = [progressListeners EXCEPT
                   ![glslGeneratorRef] = destroyListeners(@)]
            /\ destroyed' = [destroyed EXCEPT ![glslGeneratorRef] = TRUE]
       ELSE UNCHANGED <<listeners, progressListeners, destroyed>>
    /\ glslGeneratorRef' = 0
    /\ isRunning' = FALSE
    /\ out' = <<Ev("stop", glslGeneratorRef, <<>>, FALSE, -1)>>
    /\ clean' = FALSE
    /\ retryCount' = handlerRetryCount(retryCount)
    /\ audioElementRef' = FALSE
    /\ UNCHANGED <<sideVars, analyzers, audioSensitivity, subscribedSensitivity,
                   mounted, appIsGenerating, error, rendererRef,
                   pendingRetries, retryOwners, pendingRollbacks, nextGen, handles,
                   isGenerating, cycles, rendVars, rollbacksIssued,
                   retriesIssued>>

(* the Regenerate button *)
regenerateShader ==
    /\ mounted /\ isRunning
    /\ glslGeneratorRef # 0 /\ ~appIsGenerating
    /\ isGenerating[glslGeneratorRef] \/ MayStart
    /\ isGenerating' = generateGLSL(glslGeneratorRef).isGenerating
    /\ cycles' = generateGLSL(glslGeneratorRef).cycles
    /\ out' = <<Ev("regenerate", glslGeneratorRef, <<>>, FALSE, -1)>>
                  \o generateGLSL(glslGeneratorRef).ev
    /\ clean' = (CleanStart /\ ~isGenerating[glslGeneratorRef])
    /\ rollbacksIssued' = 0
    /\ retriesIssued' = IF isGenerating[glslGeneratorRef] THEN retriesIssued
                        ELSE 0
    /\ retryCount' = handlerRetryCount(retryCount)
    /\ UNCHANGED <<audioVars, sideVars, mounted, isRunning, appIsGenerating, error,
                   glslGeneratorRef, rendererRef, pendingRetries, retryOwners,
                   pendingRollbacks, nextGen, handles, listeners, progressListeners,
                   destroyed, rendVars>>

(* the cycles after the generateGLSL call of a retry: a cycle the call    *)
(* started is marked when the subscriber that waited belongs to a          *)
(* generator destroyed in the meantime                                     *)
retryCycles(cs, ownerDestroyed) ==
    IF Len(cs) > Len(cycles) /\ ownerDestroyed
    THEN [cs EXCEPT ![Len(cs)].stale = TRUE]
    ELSE cs

(* the backoff timer of a rejected candidate elapses: the subscriber      *)
(* calls generateGLSL on the generator the App holds by then               *)
RetryFire ==
    \E j \in DOMAIN retryOwners :
    LET owner == retryOwners[j]
        timer == <<Ev("retry", owner, <<>>, destroyed[owner], retryCount)>>
    IN
    /\ pendingRetries > 0
    /\ pendingRetries' = pendingRetries - 1
    /\ retryOwners' = RemoveAt(retryOwners, j)
    /\ IF glslGeneratorRef # 0
       THEN /\ isGenerating[glslGeneratorRef] \/ MayStart
            /\ isGenerating' = generateGLSL(glslGeneratorRef).isGenerating
            /\ cycles' = retryCycles(generateGLSL(glslGeneratorRef).cycles,
                                     destroyed[owner])
            /\ out' = timer \o generateGLSL(glslGeneratorRef).ev
            /\ retriesIssued' = IF isGenerating[glslGeneratorRef]
                                THEN retriesIssued ELSE retriesIssued + 1
       ELSE /\ out' = timer
            /\ UNCHANGED <<isGenerating, cycles, retriesIssued>>
    /\ UNCHANGED <<audioVars, sideVars, mounted, isRunning, appIsGenerating, error, retryCount,
                   glslGeneratorRef, rendererRef, pendingRollbacks, nextGen, handles,
                   listeners, progressListeners, destroyed, rendVars, clean,
                   rollbacksIssued>>

(* the rollback instructed by the max-retries branch is performed *)
DoRollback ==
    /\ pendingRollbacks > 0
    /\ pendingRollbacks' = pendingRollbacks - 1
    /\ \E surfaceOk \in BOOLEAN :
          LET r == rollback(Rend, lastGoodCode, surfaceOk) IN
          /\ currentShader' = r.currentShader
          /\ loaded' = r.loaded
          /\ out' = <<Ev("rollback", 0, r.currentShader,
                         r.outcome = "loaded", -1)>>
    /\ UNCHANGED <<audioVars, sideVars, mounted, isRunning, appIsGenerating, error, retryCount,
                   glslGeneratorRef, rendererRef, pendingRetries, retryOwners, genVars,
                   cycles, sandbox, lastGoodCode, surfVars, histVars>>

(* the effect cleanup on unmount: the generator and the renderer are      *)
(* destroyed                                                               *)
Unmount ==
    /\ mounted
    /\ mounted' = FALSE
    /\ IF glslGeneratorRef # 0
       THEN /\ listeners' = [listeners EXCEPT
                   ![glslGeneratorRef] = destroyListeners(@)]
            /\ progressListeners' = [progressListeners EXCEPT
                   ![glslGeneratorRef] = destroyListeners(@)]
            /\ destroyed' = [destroyed EXCEPT ![glslGeneratorRef] = TRUE]
       ELSE UNCHANGED <<listeners, progressListeners, destroyed>>
    /\ glslGeneratorRef' = 0
    /\ sandbox' = FALSE
    /\ rendererRef' = FALSE
    /\ out' = <<Ev("unmount", glslGeneratorRef, <<>>, FALSE, -1)>>
    /\ audioElementRef' = FALSE
    /\ clean' = FALSE
    /\ UNCHANGED <<sideVars, analyzers, audioSensitivity, subscribedSensitivity,
                   isRunning, appIsGenerating, error, retryCount,
                   pendingRetries, retryOwners, pendingRollbacks, nextGen, handles, isGenerating,
                   cycles, currentShader, loaded, lastGoodCode, surfVars,
                   rollbacksIssued, retriesIssued>>

----------------------------------------------------------------------------

Next ==
    \/ startVisualization
    \/ stopVisualization
    \/ regenerateShader
    \/ RetryFire
    \/ DoRollback
    \/ Unmount
    \/ \E k \in DOMAIN cycles : ReadDone(k)
    \/ \E k \in DOMAIN cycles : StreamStart(k)
    \/ \E k \in DOMAIN cycles : Chunk(k)
    \/ \E k \in DOMAIN cycles : StreamEnd(k)
    \/ \E k \in DOMAIN cycles : AnimStep(k)
    \/ \E k \in DOMAIN cycles : Finish(k)
    \/ \E k \in DOMAIN cycles : FallbackFinish(k)
    \/ \E k \in DOMAIN cycles : Fail(k)

Spec == Init /\ [][Next]_vars

(* timers fire and the file reader answers: the backoff timer of a        *)
(* rejection elapses, and a started cycle gets past reading its file       *)
LiveSpec ==
    /\ Spec
    /\ WF_vars(RetryFire)
    /\ WF_vars(\E k \in DOMAIN cycles : ReadDone(k))

(* a subscriber that hands on the frame of the cycle before *)
framePushedStale(level, u) == u["u_volume"]

(* the audio subscriber hands the frame it is called with to the renderer *)
framePushed(level, u) == level

(* updateAudioData: every uniform is set from the frame with setUniform   *)
updateAudioData(u, hasSandbox, level, setOk) ==
    [n \in UniformNames |-> setUniform(u, hasSandbox, n, level, setOk)[n]]

(* a subscriber that passes the sensitivity it was created with *)
sensitivityAtSubscribe(current, captured) == captured

(* the subscriber reads audioSensitivityRef.current when it is called *)
sensitivityAtPush(current, captured) == current

(* updateAudioData scales the energies of the frame by the sensitivity *)
scaleFrame(level, sensitivity) == level * sensitivity

(* an audio subscriber that waits for the pipeline to be idle *)
subscriberWaits(busy) == ~busy

(* the audio subscriber is called by the analyzer and awaits nothing: it  *)
(* runs whatever the generator and the result subscriber are doing         *)
subscriberRuns(busy) == TRUE

(* an analysis cycle of the AudioInput made by startVisualization ends:   *)
(* the frame it produced goes to the subscriber, and from there to the     *)
(* renderer if there is one                                                *)
analysisCycle ==
    \E level \in UniformValues, setOk \in BOOLEAN :
        LET pushed == framePushed(level, uniforms)
            sens == sensitivityAtPush(audioSensitivity, subscribedSensitivity)
        IN
        /\ analyzers > 0
        /\ subscriberRuns(cycles # <<>> \/ pendingRollbacks > 0
                              \/ pendingRetries > 0)
        /\ IF rendererRef
           THEN /\ uniforms' = updateAudioData(uniforms, sandbox,
                                                scaleFrame(pushed, sens), setOk)
                /\ out' = <<Ev("frame", 0, <<>>, FALSE, level),
                            Ev("push", sens, <<>>, sandbox /\ setOk, pushed)>>
           ELSE /\ uniforms' = uniforms
                /\ out' = <<Ev("frame", 0, <<>>, FALSE, level)>>
        /\ UNCHANGED <<appVars, audioVars, sideVars, genVars, cycles, sandbox, currentShader,
                       loaded, lastGoodCode, canvasSize, histVars>>

(* one resumption of the generateGLSL activation k, whichever it is *)
CycleStep(k) ==
    \/ ReadDone(k)
    \/ StreamStart(k)
    \/ Chunk(k)
    \/ StreamEnd(k)
    \/ AnimStep(k)
    \/ Finish(k)
    \/ FallbackFinish(k)
    \/ Fail(k)

(* the provider call and its stream terminate and every timer fires: an   *)
(* activation of generateGLSL that waits in an await is resumed            *)
TermSpec ==
    /\ Spec
    /\ \A g \in StartedGens :
          WF_vars(\E k \in DOMAIN cycles : cycles[k].gen = g /\ CycleStep(k))

(* the pipeline with the audio frames of the analyzer *)
AudioNext ==
    \/ Next
    \/ analysisCycle

AudioSpec == Init /\ [][AudioNext]_vars

(* the runs in which the provider fails every cycle, with one more press  *)
(* of Start allowed: no chunk arrives, every cycle ends in the catch block *)
RestartNext ==
    \/ startAgain
    \/ stopVisualization
    \/ regenerateShader
    \/ RetryFire
    \/ DoRollback
    \/ Unmount
    \/ \E k \in DOMAIN cycles : ReadDone(k)
    \/ \E k \in DOMAIN cycles : StreamStart(k)
    \/ \E k \in DOMAIN cycles : Fail(k)

RestartSpec == Init /\ [][RestartNext]_vars

----------------------------------------------------------------------------

TypeOK ==
    /\ retryCount \in 0..(RetryCap + 1)
    /\ pendingRetries \in 0..MaxPending
    /\ pendingRollbacks \in 0..MaxPending
    /\ glslGeneratorRef \in 0..(MaxGens + 1)
    /\ Len(retryOwners) = pendingRetries
    /\ Len(cycles) <= MaxCycles

----------------------------------------------------------------------------
(* GLSLRenderer on its own: the constructor, then any sequence of         *)
(* updateShader, setUniform, window resize and destroy calls, with any     *)
(* argument                                                                *)

RendererInputs == Candidates \cup {undefined, getDefaultShader, defaultShader}

RendererInit ==
    /\ mounted = TRUE
    /\ isRunning = FALSE
    /\ appIsGenerating = FALSE
    /\ error = ErrNone
    /\ retryCount = 0
    /\ glslGeneratorRef = 0
    /\ rendererRef = FALSE
    /\ pendingRetries = 0
    /\ retryOwners = <<>>
    /\ pendingRollbacks = 0
    /\ nextGen = 0
    /\ handles = {}
    /\ isGenerating = [g \in Gens |-> FALSE]
    /\ listeners = [g \in Gens |-> <<>>]
    /\ progressListeners = [g \in Gens |-> <<>>]
    /\ destroyed = [g \in Gens |-> FALSE]
    /\ cycles = <<>>
    /\ sandbox = FALSE
    /\ currentShader = <<>>
    /\ loaded = <<>>
    /\ lastGoodCode = <<>>
    /\ canvasSize = 0
    /\ uniforms = [n \in UniformNames |-> 0]
    /\ out = <<>>
    /\ clean = FALSE
    /\ rollbacksIssued = 0
    /\ retriesIssued = 0
    /\ AudioInit
    /\ SideInit

(* new GLSLRenderer(canvas): init() sizes the canvas, makes the sandbox   *)
(* and loads the default shader                                            *)
construct ==
    \E w \in WindowSizes :
        LET r == loadDefaultShader([Rend EXCEPT !.sandbox = TRUE]) IN
        /\ ~rendererRef
        /\ rendererRef' = TRUE
        /\ canvasSize' = resizeCanvas(w)
        /\ sandbox' = TRUE
        /\ currentShader' = r.currentShader
        /\ loaded' = r.loaded
        /\ lastGoodCode' = recordLastGood(lastGoodCode, r.outcome, defaultShader)
        /\ out' = <<Ev("construct", 0, defaultShader, FALSE, -1),
                    Ev(r.outcome, 0, defaultShader, r.outcome = "loaded", -1)>>
        /\ UNCHANGED <<audioVars, sideVars, mounted, isRunning, appIsGenerating, error, retryCount,
                       glslGeneratorRef, pendingRetries, retryOwners, pendingRollbacks,
                       genVars, cycles, uniforms, histVars>>

(* a call of updateShader with any argument *)
callUpdateShader ==
    \E shaderCode \in RendererInputs, loadOk \in BOOLEAN, skipRes \in BOOLEAN :
        LET r == updateShader(Rend, shaderCode, loadOk) IN
        /\ rendererRef
        /\ currentShader' = r.currentShader
        /\ loaded' = r.loaded
        /\ lastGoodCode' = recordLastGood(lastGoodCode, r.outcome, shaderCode)
        /\ out' = <<Ev(r.outcome, 0, shaderCode,
                       activationResult(r.outcome, skipRes), -1)>>
        /\ UNCHANGED <<appVars, audioVars, sideVars, genVars, cycles, sandbox, surfVars, histVars>>

(* a call of setUniform, as made for every audio frame *)
callSetUniform ==
    \E name \in UniformNames, value \in UniformValues, setOk \in BOOLEAN :
        /\ rendererRef
        /\ uniforms' = setUniform(uniforms, sandbox, name, value, setOk)
        /\ out' = <<Ev(setUniformResult(sandbox, setOk), 0, <<>>,
                       sandbox /\ setOk, value)>>
        /\ UNCHANGED <<appVars, audioVars, sideVars, genVars, cycles, sandbox, currentShader,
                       loaded, lastGoodCode, canvasSize, histVars>>

(* the arrow function init() passes to addEventListener and the one       *)
(* destroy() passes to removeEventListener: each arrow expression makes a  *)
(* function object of its own                                              *)
initResizeHandler == "arrowOfInit"

destroyResizeHandler == "arrowOfDestroy"

(* window.removeEventListener removes the listener that is the very       *)
(* object passed, if it is registered                                      *)
removeEventListener(registered, handler) == registered \ {handler}

(* the resize listeners of the renderer on the window, before and after   *)
(* destroy()                                                               *)
windowListeners(isDestroyed) ==
    IF isDestroyed
    THEN removeEventListener({initResizeHandler}, destroyResizeHandler)
    ELSE {initResizeHandler}

(* the window is resized: the listener added by init() runs resizeCanvas *)
windowResize ==
    \E w \in WindowSizes :
        LET r == resizeProgram(Rend) IN
        /\ rendererRef
        /\ initResizeHandler \in windowListeners(~sandbox)
        /\ canvasSize' = resizeCanvas(w)
        /\ sandbox' = r.sandbox
        /\ currentShader' = r.currentShader
        /\ loaded' = r.loaded
        /\ out' = <<Ev("resize", 0, <<>>, FALSE, w)>>
        /\ UNCHANGED <<appVars, audioVars, sideVars, genVars, cycles, lastGoodCode, uniforms,
                       histVars>>

(* a call of destroy *)
callDestroy ==
    /\ rendererRef
    /\ sandbox' = FALSE
    /\ out' = <<Ev(destroyResult(sandbox), 0, <<>>, destroySandbox(sandbox), -1)>>
    /\ UNCHANGED <<appVars, audioVars, sideVars, genVars, cycles, currentShader, loaded,
                   lastGoodCode, surfVars, histVars>>

RendererNext ==
    \/ construct
    \/ callUpdateShader
    \/ callSetUniform
    \/ windowResize
    \/ callDestroy

RendererSpec == RendererInit /\ [][RendererNext]_vars

----------------------------------------------------------------------------
(* GeminiGLSLGenerator's listener sets on their own: any sequence of      *)
(* subscribe, subscribeProgress, handle, notify and destroy calls by any   *)
(* callbacks                                                               *)

Callbacks == {"app", "cb2", "cb3"}

Streams == {"result", "progress"}

(* the listener set of a stream of instance g *)
registry(g, stream) ==
    IF stream = "result" THEN listeners[g] ELSE progressListeners[g]

(* subscribe(callback) or subscribeProgress(callback); the caller keeps   *)
(* the handle                                                              *)
callSubscribe ==
    \E g \in StartedGens, stream \in Streams, callback \in Callbacks :
        /\ IF stream = "result"
           THEN /\ listeners' = [listeners EXCEPT ![g] = subscribe(@, callback)]
                /\ UNCHANGED progressListeners
           ELSE /\ progressListeners' =
                       [progressListeners EXCEPT ![g] = subscribe(@, callback)]
                /\ UNCHANGED listeners
        /\ handles' = handles \cup {<<g, stream, callback>>}
        /\ out' = <<Ev("subscribe", g, <<callback>>, stream = "progress", -1)>>
        /\ UNCHANGED <<appVars, audioVars, sideVars, nextGen, isGenerating, destroyed, cycles,
                       rendVars, histVars>>

(* a handle returned earlier is invoked *)
invokeHandle ==
    \E h \in handles :
        LET g == h[1] stream == h[2] callback == h[3] IN
        /\ IF stream = "result"
           THEN /\ listeners' = [listeners EXCEPT ![g] = unsubscribe(@, callback)]
                /\ UNCHANGED progressListeners
           ELSE /\ progressListeners' =
                       [progressListeners EXCEPT ![g] = unsubscribe(@, callback)]
                /\ UNCHANGED listeners
        /\ out' = <<Ev("unsubscribe", g, <<callback>>, stream = "progress", -1)>>
        /\ UNCHANGED <<appVars, audioVars, sideVars, nextGen, handles, isGenerating, destroyed,
                       cycles, rendVars, histVars>>

(* notifyListeners with a program *)
callNotify ==
    \E g \in StartedGens :
        /\ out' = <<Ev("notify", g, <<>>, FALSE, -1)>>
                      \o notifyListeners(g, getDefaultShader)
        /\ UNCHANGED <<appVars, audioVars, sideVars, genVars, cycles, rendVars, histVars>>

(* notifyProgressListeners with a code and a flag *)
callNotifyProgress ==
    \E g \in StartedGens, isComplete \in BOOLEAN :
        /\ out' = <<Ev("notify", g, <<>>, TRUE, -1)>>
                      \o notifyProgressListeners(g, "final", getDefaultShader,
                                                 isComplete, -1)
        /\ UNCHANGED <<appVars, audioVars, sideVars, genVars, cycles, rendVars, histVars>>

(* destroy() of the generator *)
callDestroyGenerator ==
    \E g \in StartedGens :
        /\ listeners' = [listeners EXCEPT ![g] = destroyListeners(@)]
        /\ progressListeners' =
               [progressListeners EXCEPT ![g] = destroyListeners(@)]
        /\ destroyed' = [destroyed EXCEPT ![g] = TRUE]
        /\ out' = <<Ev("destroyGenerator", g, <<>>, FALSE, -1)>>
        /\ UNCHANGED <<appVars, audioVars, sideVars, nextGen, handles, isGenerating, cycles,
                       rendVars, histVars>>

ListenerNext ==
    \/ callSubscribe
    \/ invokeHandle
    \/ callNotify
    \/ callNotifyProgress
    \/ callDestroyGenerator

ListenerSpec == RendererInit /\ [][ListenerNext]_vars

----------------------------------------------------------------------------
(* The session controls of the App: the Start button with any inputs, the *)
(* microphone that may be refused, the sensitivity slider, the Stop        *)
(* button, and the frames of the analyzers.  Every cycle ends in the catch *)
(* block of generateGLSL (the file cannot be read).                        *)

Modes == {"file", "microphone"}

Providers == {"gemini", "openai"}

(* what startVisualization reads: the API key of the provider, the input  *)
(* mode, the selected file, the prompt, and the provider                   *)
StartInputs ==
    [hasKey : BOOLEAN, mode : Modes, hasFile : BOOLEAN,
     promptBlank : BOOLEAN, provider : Providers]

(* a validation without the prompt test *)
validateNoPrompt(in) ==
    IF ~in.hasKey THEN ErrApiKey
    ELSE IF in.mode = "file" /\ ~in.hasFile THEN ErrAudioFile
    ELSE IF in.mode = "file" /\ in.provider = "openai" THEN ErrProvider
    ELSE ErrNone

(* the tests at the head of startVisualization, in their order; prompt    *)
(* .trim() is empty for an empty and for a white-space prompt              *)
validate(in) ==
    IF ~in.hasKey THEN ErrApiKey
    ELSE IF in.mode = "file" /\ ~in.hasFile THEN ErrAudioFile
    ELSE IF in.mode = "microphone" /\ in.promptBlank THEN ErrPrompt
    ELSE IF in.mode = "file" /\ in.provider = "openai" THEN ErrProvider
    ELSE ErrNone

(* the Start button with any inputs: refused by the validation, stopped   *)
(* by a microphone that cannot be opened, or started                       *)
startSession ==
    \E in \in StartInputs, micOk \in BOOLEAN :
        LET read == <<Ev("startInputs", 0, in, micOk, -1)>> IN
        IF validate(in) # ErrNone
        THEN /\ mounted /\ ~isRunning /\ ~appIsGenerating
             /\ error' = validate(in)
             /\ out' = read \o <<Ev("startRefused", 0, <<>>, FALSE, -1)>>
             /\ UNCHANGED <<mounted, isRunning, appIsGenerating, retryCount,
                            glslGeneratorRef, rendererRef, pendingRetries,
                            retryOwners, pendingRollbacks, audioVars,
                            genVars, cycles, rendVars, histVars, sideVars>>
        ELSE IF in.mode = "microphone" /\ ~micOk
        THEN /\ mounted /\ ~isRunning /\ ~appIsGenerating
             /\ error' = ErrSource
             /\ analyzers' = attachAnalyzer(analyzers, micOk)
             /\ out' = read \o <<Ev("sourceUnavailable", 0, <<>>, FALSE, -1)>>
             /\ UNCHANGED <<mounted, isRunning, appIsGenerating, retryCount,
                            glslGeneratorRef, rendererRef, pendingRetries,
                            retryOwners, pendingRollbacks, audioElementRef,
                            audioSensitivity, subscribedSensitivity,
                            genVars, cycles, rendVars, histVars, sideVars>>
        ELSE startVisualizationWith(MaxGens + 1, in.mode, read)

(* the sensitivity slider, disabled while the App shows a generation *)
setSensitivity ==
    \E newValue \in Sensitivities :
        /\ mounted /\ ~appIsGenerating
        /\ audioSensitivity' = newValue
        /\ out' = <<Ev("sensitivity", 0, <<>>, FALSE, newValue)>>
        /\ UNCHANGED <<appVars, audioElementRef, analyzers,
                       subscribedSensitivity, genVars, cycles, rendVars,
                       histVars, sideVars>>

SessionNext ==
    \/ startSession
    \/ stopVisualization
    \/ setSensitivity
    \/ analysisCycle
    \/ \E k \in DOMAIN cycles : Fail(k)

SessionSpec == Init /\ [][SessionNext]_vars

----------------------------------------------------------------------------
(* getFrequencyBandEnergy on its own: any frequency array of byte values  *)
(* up to MaxBins bins, and the three calls createPrompt makes on it        *)

ByteValues == {0, 128, 255}

Frames == UNION {[1..n -> ByteValues] : n \in 0..MaxBins}

(* the ratios createPrompt passes, in tenths: 0, 0.1, 0.5 and 1.0 *)
BandRatios == [bass |-> <<0, 1>>, mid |-> <<1, 5>>, high |-> <<5, 10>>]

BandNames == DOMAIN BandRatios

(* a Math.floor that rounds up *)
floorRatioUp(length, tenths) == (length * tenths + 9) \div 10

(* Math.floor(frequencyData.length * ratio). The double 0.1 is a little   *)
(* above 1/10 and 0.5 and 1.0 are exact, so for the lengths of an array    *)
(* the floor of the product in doubles is the floor of the exact product   *)
floorRatio(length, tenths) == (length * tenths) \div 10

(* the for loop: sum += frequencyData[i] for i from start below end; the  *)
(* array is indexed from 0, the sequence from 1                            *)
RECURSIVE bandSum(_, _, _)
bandSum(data, i, end) ==
    IF i < end THEN data[i + 1] + bandSum(data, i + 1, end) ELSE 0

(* getFrequencyBandEnergy: (sum / (end - start)) / 255 as the fraction    *)
(* num / den; with end = start the division is 0 / 0, which is NaN, and    *)
(* NaN / 255 is NaN                                                        *)
getFrequencyBandEnergy(data, startTenths, endTenths) ==
    LET start == floorRatio(Len(data), startTenths)
        end == floorRatio(Len(data), endTenths)
        sum == bandSum(data, start, end)
    IN [start |-> start, end |-> end, num |-> sum,
        den |-> (end - start) * 255, nan |-> (end - start = 0)]

(* the three energies createPrompt computes for one frame *)
bandEnergies(data) ==
    [b \in BandNames |->
        getFrequencyBandEnergy(data, BandRatios[b][1], BandRatios[b][2])]

(* the pipeline is idle and has no renderer yet *)
PipelineIdle ==
    /\ mounted = TRUE
    /\ isRunning = FALSE
    /\ appIsGenerating = FALSE
    /\ error = ErrNone
    /\ retryCount = 0
    /\ glslGeneratorRef = 0
    /\ rendererRef = FALSE
    /\ pendingRetries = 0
    /\ retryOwners = <<>>
    /\ pendingRollbacks = 0
    /\ nextGen = 0
    /\ handles = {}
    /\ isGenerating = [g \in Gens |-> FALSE]
    /\ listeners = [g \in Gens |-> <<>>]
    /\ progressListeners = [g \in Gens |-> <<>>]
    /\ destroyed = [g \in Gens |-> FALSE]
    /\ cycles = <<>>
    /\ sandbox = FALSE
    /\ currentShader = <<>>
    /\ loaded = <<>>
    /\ lastGoodCode = <<>>
    /\ canvasSize = 0
    /\ uniforms = [n \in UniformNames |-> 0]
    /\ out = <<>>
    /\ clean = FALSE
    /\ rollbacksIssued = 0
    /\ retriesIssued = 0
    /\ AudioInit

BandInit ==
    /\ PipelineIdle
    /\ frequencyData \in Frames
    /\ bands = NoBands
    /\ now = 0
    /\ lastGenerationTime = 0
    /\ intervalGenerating = FALSE
    /\ requestTimes = <<>>
    /\ outstandingRequests = 0

(* createPrompt computes the band energies of the frame it is given *)
callBandEnergies ==
    /\ bands = NoBands
    /\ bands' = bandEnergies(frequencyData)
    /\ out' = <<Ev("bands", 0, <<>>, FALSE, Len(frequencyData))>>
    /\ UNCHANGED <<appVars, audioVars, genVars, cycles, rendVars, histVars,
                   frequencyData, intervalVars>>

BandNext == callBandEnergies

BandSpec == BandInit /\ [][BandNext]_vars

----------------------------------------------------------------------------
(* The interval-driven generator on its own: the audio subscriber calls   *)
(* generateGLSL(audioData) for every frame, the clock advances, and the    *)
(* provider answers.  Time is in seconds.                                  *)

(* options.updateInterval ?? 3000, in seconds *)
updateInterval == 3

(* a guard that tests the in-flight flag only *)
throttledBusyOnly(time, last, busy) == busy

(* the guard of generateGLSL: the call returns at once *)
throttled(time, last, busy) == time - last < updateInterval \/ busy

(* how the provider call of the interval generator ends: a function call, *)
(* a text answer, or a rejection caught by the catch block                 *)
IntervalResults == {"resultFunction", "resultText", "resultDefault"}

(* Date.now() is far above updateInterval when the first call is made *)
IntervalInit ==
    /\ PipelineIdle
    /\ frequencyData = <<>>
    /\ bands = NoBands
    /\ now = updateInterval
    /\ lastGenerationTime = 0
    /\ intervalGenerating = FALSE
    /\ requestTimes = <<>>
    /\ outstandingRequests = 0

(* the clock advances *)
tick ==
    /\ now < MaxTime
    /\ now' = now + 1
    /\ out' = <<Ev("tick", 0, <<>>, FALSE, now + 1)>>
    /\ UNCHANGED <<appVars, audioVars, genVars, cycles, rendVars, histVars,
                   bandVars, lastGenerationTime, intervalGenerating,
                   requestTimes, outstandingRequests>>

(* the audio subscriber calls generateGLSL(audioData) *)
callIntervalGenerateGLSL ==
    IF throttled(now, lastGenerationTime, intervalGenerating)
    THEN /\ out' = <<Ev("throttled", 0, <<>>, intervalGenerating, now)>>
         /\ UNCHANGED <<appVars, audioVars, genVars, cycles, rendVars,
                        histVars, sideVars>>
    ELSE /\ intervalGenerating' = TRUE
         /\ lastGenerationTime' = now
         /\ requestTimes' = Append(requestTimes, now)
         /\ outstandingRequests' = outstandingRequests + 1
         /\ out' = <<Ev("intervalRequest", 0, <<>>, intervalGenerating, now)>>
         /\ UNCHANGED <<appVars, audioVars, genVars, cycles, rendVars,
                        histVars, bandVars, now>>

(* model.generateContent settles: the listeners are notified of the       *)
(* result, or of the default shader, and the finally block clears the flag *)
intervalAnswer ==
    \E result \in IntervalResults :
        /\ outstandingRequests > 0
        /\ outstandingRequests' = outstandingRequests - 1
        /\ intervalGenerating' = FALSE
        /\ out' = <<Ev(result, 0, <<>>, FALSE, now)>>
        /\ UNCHANGED <<appVars, audioVars, genVars, cycles, rendVars,
                       histVars, bandVars, now, lastGenerationTime,
                       requestTimes>>

IntervalNext ==
    \/ tick
    \/ callIntervalGenerateGLSL
    \/ intervalAnswer

IntervalSpec == IntervalInit /\ [][IntervalNext]_vars

----------------------------------------------------------------------------
(* Properties *)

EvsOf(types) == {i \in DOMAIN out : out[i].type \in types}

CyclesOf(g) == {k \in DOMAIN cycles : cycles[k].gen = g}

EvsIn(s, types) == {i \in DOMAIN s : s[i].type \in types}

(* C1: at most one generation cycle is in flight per generator instance   *)
(* and at most one provider call is outstanding; a generateGLSL call made  *)
(* while a cycle is in flight starts no cycle, issues no provider request  *)
(* and notifies no listener.                                               *)
C1_AtMostOneCycle ==
    /\ [](\A g \in Gens : Cardinality(CyclesOf(g)) <= 1 /\ Outstanding(g) <= 1)
    /\ [][(\E i \in DOMAIN out' : out'[i].type = "call" /\ out'[i].flag)
             => /\ cycles' = cycles
                /\ isGenerating' = isGenerating
                /\ \A i \in DOMAIN out' :
                      out'[i].type \notin
                          (ProgressTypes \cup {"request", "result"})]_vars

(* a retry of the result subscriber called generateGLSL while a cycle of  *)
(* the same generator, started by the Regenerate button, had its provider  *)
(* call outstanding                                                        *)
C1_Witness ==
    /\ Len(out) = 2
    /\ out[1].type = "retry"
    /\ out[2].type = "call" /\ out[2].flag
    /\ Outstanding(out[2].gen) = 1

(* C2: at most maxRetries retry requests are issued before the rollback,  *)
(* and no retry request is issued once the retry counter has reached       *)
(* maxRetries.                                                             *)
C2_RetryBound ==
    /\ retriesIssued <= maxRetries
    /\ (/\ Len(out) = 2
        /\ out[1].type = "retry"
        /\ out[2].type = "call" /\ ~out[2].flag) => retryCount < maxRetries

C4_NonDestructive ==
    [][HasEv(out', "failed")
          => /\ currentShader' = currentShader
             /\ loaded' = loaded
             /\ lastGoodCode' = lastGoodCode
             /\ sandbox' = sandbox]_vars

(* a load failed while a generated program, not the default, was current *)
C4_Witness ==
    /\ HasEv(out, "failed")
    /\ currentShader # defaultShader
    /\ loaded = withPrecision(currentShader)

C6_FinalProgress ==
    \A i \in EvsOf({"result"}) :
        /\ i > 1
        /\ out[i - 1].type = "final"
        /\ out[i - 1].flag
        /\ out[i - 1].code = out[i].code

(* C7: nothing is delivered to a subscriber and no candidate reaches      *)
(* updateShader on behalf of a generator that has been destroyed, and a    *)
(* destroyed generator has no listeners.                                   *)
C7_CancellationSafety ==
    /\ \A i \in EvsOf(ProgressTypes \cup ActivationTypes
                          \cup {"result", "accept", "reject", "error"}) :
          ~destroyed[out[i].gen]
    /\ \A g \in Gens :
          destroyed[g] => listeners[g] = <<>> /\ progressListeners[g] = <<>>

(* the cycle of a destroyed generator came to its end with a candidate *)
C7_Witness ==
    \E i \in EvsOf({"end"}) :
        /\ destroyed[out[i].gen]
        /\ "main" \in {out[i].code[j] : j \in DOMAIN out[i].code}
        /\ out[i].code # getDefaultShader

C9_Exhaustion ==
    (clean /\ retryCount >= maxRetries)
        => /\ retryCount = maxRetries
           /\ rollbacksIssued = 1
           /\ pendingRollbacks <= 1
           /\ error = ErrMaxRetries
           /\ ~appIsGenerating
           /\ pendingRetries = 0
           /\ CyclesOf(glslGeneratorRef) = {}

(* the automatic run is exhausted and its rollback has been performed *)
C9_Witness ==
    /\ clean
    /\ retryCount = maxRetries
    /\ HasEv(out, "rollback")
    /\ pendingRollbacks = 0

(* C10: when the max-retries error becomes visible, the rollback has      *)
(* already been performed.                                                 *)
C10_RollbackBeforeError ==
    HasEv(out, "error") => pendingRollbacks = 0

(* C11: a failure of the provider call does not consume the retry counter *)
(* and schedules no automatic request: the step that catches it rejects no *)
(* candidate.                                                              *)
C11_ProviderErrorTerminal ==
    HasEv(out, "caught") => ~HasEv(out, "reject")

(* C12: every program delivered to the result subscribers contains the    *)
(* entry point, and a function-call candidate that lacks it once the       *)
(* fences are stripped is delivered as the default program.                *)
C12_Validation ==
    /\ [](\A i \in EvsOf({"result"}) : Includes(out[i].code, "main"))
    /\ [][\A k \in DOMAIN cycles :
             (/\ cycles[k].pc = "animEnd"
              /\ ~Includes(StripFences(cycles[k].acc), "main")
              /\ \E j \in EvsIn(out', {"final"}) : out'[j].gen = cycles[k].gen)
                 => \A i \in EvsIn(out', {"final", "result"}) :
                       out'[i].code = getDefaultShader]_vars

(* a function-call candidate without entry point was shown by the typing  *)
(* animation and the default program was delivered in its place            *)
C12_Witness ==
    /\ HasEv(out, "result")
    /\ \E i \in EvsOf({"final"}) :
          /\ out[i].code = getDefaultShader
          /\ out[i].prev = Len(CandFenced)

C14_NoThrow ==
    /\ ~HasEv(out, "threw")
    /\ \A i \in DOMAIN out :
          out[i].code = undefined => out[i].type \in {"failed", "nosandbox"}

(* updateShader was called with an argument that is not a string while    *)
(* the sandbox was there, and the exception was caught                     *)
C14_Witness ==
    \E i \in EvsOf({"failed"}) : out[i].code = undefined /\ sandbox

C17_OneResult ==
    /\ [](Cardinality(EvsOf({"result"})) <= 1)
    /\ [][/\ HasEv(out', "result") => Len(cycles') = Len(cycles) - 1
           /\ \A i \in EvsIn(out', ProgressTypes) :
                 \E k \in DOMAIN cycles :
                    /\ cycles[k].gen = out'[i].gen
                    /\ cycles[k].pc \in {"stream", "anim", "animEnd",
                                          "fallbackWait"}]_vars

(* a cycle delivered its result after the progress events of its stream *)
C17_Witness ==
    /\ Cardinality(EvsOf({"result"})) = 1
    /\ \E i \in EvsOf({"final"}) : out[i].prev > chunkSize

(* C18: the progress events of a step come before the result and the      *)
(* activation of that step, and they belong to the generator the App       *)
(* holds, which has not been destroyed.                                    *)
C18_ProgressBeforeOutcome ==
    \A i \in EvsOf(ProgressTypes) :
        /\ \A j \in EvsOf(ActivationTypes \cup {"result", "accept", "reject"}) :
              i < j
        /\ ~destroyed[out[i].gen]
        /\ out[i].gen = glslGeneratorRef

(* the typing animation of a destroyed generator ran to its end and       *)
(* delivered nothing                                                       *)
C18_Witness ==
    /\ out = <<>>
    /\ \E k \in DOMAIN cycles :
          cycles[k].pc = "animEnd" /\ destroyed[cycles[k].gen]

C20_StreamFallback ==
    [][/\ \A k \in DOMAIN cycles :
             (/\ cycles[k].pc = "stream"
              /\ Len(cycles') = Len(cycles)
              /\ cycles'[k].pc # "stream")
                 => /\ cycles'[k].pc = "fallbackWait"
                          <=> ~(cycles[k].found /\ cycles[k].acc # <<>>)
                    /\ cycles'[k].pc = "fallbackWait"
                          => \E text \in Texts :
                                cycles'[k].acc =
                                    IF Includes(StripFences(text), "main")
                                    THEN Trim(StripFences(text))
                                    ELSE getDefaultShader
       /\ \A k \in DOMAIN cycles :
             (/\ cycles[k].pc = "fallbackWait"
              /\ \E j \in EvsIn(out', {"end"}) : out'[j].gen = cycles[k].gen)
                 => \A i \in EvsIn(out', {"final", "result", "end"}) :
                       out'[i].code = cycles[k].acc]_vars

(* a stream whose only function call had another name or an empty         *)
(* shaderCode ended, and the text had no entry point                       *)
C20_Witness ==
    \E k \in DOMAIN cycles :
        /\ cycles[k].pc = "fallbackWait"
        /\ cycles[k].found
        /\ cycles[k].acc = getDefaultShader
        /\ HasEv(out, "fallback")

(* C21: setUniform returns normally for every name and value, in every    *)
(* renderer state, also after destroy(), and the step that calls it leaves *)
(* the sandbox, currentShader and the loaded program as they were.         *)
C21_SetUniformSafe ==
    /\ [](~HasEv(out, "uniformThrew"))
    /\ [][EvsIn(out', UniformEvents) # {}
             => /\ sandbox' = sandbox
                /\ currentShader' = currentShader
                /\ loaded' = loaded
                /\ lastGoodCode' = lastGoodCode]_vars

(* setUniform was called after destroy(), with a generated program as the *)
(* current one, and returned without setting anything                      *)
C21_Witness ==
    /\ HasEv(out, "uniformSkipped")
    /\ rendererRef /\ ~sandbox
    /\ currentShader \in Candidates

(* C23: a window resize changes the canvas dimensions only: the sandbox,  *)
(* currentShader, the loaded program and the uniforms are as before, in    *)
(* every renderer state.                                                   *)
C23_ResizeKeepsProgram ==
    [][\A i \in EvsIn(out', {"resize"}) :
          /\ canvasSize' = out'[i].prev
          /\ sandbox' = sandbox
          /\ currentShader' = currentShader
          /\ loaded' = loaded
          /\ lastGoodCode' = lastGoodCode
          /\ uniforms' = uniforms]_vars

(* the window was resized to its largest size while a generated program   *)
(* was active                                                              *)
C23_Witness ==
    /\ HasEv(out, "resize")
    /\ canvasSize = MaxSize
    /\ sandbox
    /\ currentShader \in Candidates
    /\ loaded = withPrecision(currentShader)

(* C24: no destroy() call throws; a call destroys the sandbox exactly     *)
(* when there is one, so that of two calls only the first does; afterwards *)
(* there is no sandbox, and a call on a destroyed renderer changes nothing.*)
C24_DestroyIdempotent ==
    /\ [](~HasEv(out, "destroyThrew"))
    /\ [][\A i \in EvsIn(out', {"destroy", "destroyThrew"}) :
            /\ out'[i].flag = sandbox
            /\ ~sandbox'
            /\ currentShader' = currentShader
            /\ loaded' = loaded
            /\ lastGoodCode' = lastGoodCode
            /\ canvasSize' = canvasSize
            /\ uniforms' = uniforms]_vars
    /\ [][(rendererRef /\ ~sandbox) => ~sandbox']_vars

(* destroy() was called on a renderer that was destroyed before *)
C24_Witness ==
    \E i \in EvsOf({"destroy"}) :
        /\ ~out[i].flag
        /\ ~sandbox
        /\ currentShader \in Candidates

(* C26: a retry that waited in the backoff of a subscriber whose          *)
(* generator has been destroyed since issues no provider request: no       *)
(* request comes from a cycle that such a retry started.                   *)
C26_NoRequestAfterDestroy ==
    \A i \in EvsOf({"request"}) : ~out[i].flag

C27_CycleTerminates ==
    \A g \in StartedGens : isGenerating[g] ~> ~isGenerating[g]

(* a cycle that failed after a chunk was shown came to its end and left   *)
(* the flag of its generator cleared                                       *)
C27_Witness ==
    \E i \in EvsOf({"end"}) :
        /\ HasEv(out, "caught")
        /\ ~isGenerating[out[i].gen]
        /\ appIsGenerating
        /\ CyclesOf(out[i].gen) = {}

C29_CounterOnlyInSubscriber ==
    [][/\ retryCount' # retryCount
             => HasEv(out', "accept") \/ HasEv(out', "reject")
       /\ \A i \in EvsIn(out', {"reject"}) :
             /\ out'[i].prev = retryCount
             /\ retryCount' = retryCount + 1
             /\ retryCount >= maxRetries
                   => /\ HasEv(out', "error")
                      /\ ~out'[i].flag
                      /\ pendingRetries' = pendingRetries
                      /\ glslGeneratorRef # 0
                            => pendingRollbacks' = pendingRollbacks + 1
       /\ \A i \in EvsIn(out', {"accept"}) : retryCount' = 0
       /\ EvsIn(out', {"start", "stop", "regenerate", "rollback"}) # {}
             => retryCount' = retryCount]_vars

(* after the retries were exhausted the user asked for a new cycle, and   *)
(* its first rejected candidate instructed the rollback at once            *)
C29_Witness ==
    \E i \in EvsOf({"reject"}) :
        /\ out[i].prev = maxRetries
        /\ ~out[i].flag
        /\ HasEv(out, "error")
        /\ pendingRollbacks = 1
        /\ pendingRetries = 0

NoDuplicates(ls) ==
    \A i, j \in DOMAIN ls : ls[i] = ls[j] => i = j

(* the events of the types delivered to the listeners of g, in order *)
Delivered(s, g, types) ==
    SelectSeq(s, LAMBDA e : e.type \in types /\ e.gen = g)

(* C30: a listener set holds a callback once however often it was         *)
(* registered; subscribing puts the callback behind those already there    *)
(* and moves none of them; a handle takes exactly its callback out of its  *)
(* own stream and leaves the rest in their order; a notification makes one *)
(* call for every registered callback, in registration order, in the step  *)
(* of the notification, and none for a callback that is not registered.    *)
C30_ListenerFanOut ==
    /\ [](\A g \in Gens :
            /\ NoDuplicates(listeners[g])
            /\ NoDuplicates(progressListeners[g])
            /\ (\E i \in DOMAIN out : out[i].type = "notify" /\ out[i].gen = g)
                  => IF \E k \in DOMAIN out : out[k].type = "notify" /\ out[k].flag
                     THEN Len(Delivered(out, g, ProgressTypes))
                              = Len(progressListeners[g])
                     ELSE /\ Len(Delivered(out, g, {"result"}))
                                = Len(listeners[g])
                          /\ \A j \in DOMAIN Delivered(out, g, {"result"}) :
                                Delivered(out, g, {"result"})[j].prev = j)
    /\ [][\A i \in EvsIn(out', {"subscribe", "unsubscribe"}) :
            LET g == out'[i].gen
                stream == IF out'[i].flag THEN "progress" ELSE "result"
                other == IF out'[i].flag THEN "result" ELSE "progress"
                callback == out'[i].code[1]
                before == registry(g, stream)
                after == IF out'[i].flag THEN progressListeners'[g]
                         ELSE listeners'[g]
                otherAfter == IF out'[i].flag THEN listeners'[g]
                              ELSE progressListeners'[g]
            IN
            /\ otherAfter = registry(g, other)
            /\ IF out'[i].type = "subscribe"
               THEN /\ Includes(after, callback)
                    /\ SubSeq(after, 1, Len(before)) = before
                    /\ Len(after) =
                          (IF Includes(before, callback) THEN Len(before)
                           ELSE Len(before) + 1)
                    /\ <<g, stream, callback>> \in handles'
               ELSE /\ ~Includes(after, callback)
                    /\ after = SelectSeq(before, LAMBDA c : c # callback)]_vars

(* a result was delivered to two callbacks, the second of which had been  *)
(* registered twice, after the handle of the callback registered first     *)
(* had taken it out                                                        *)
C30_Witness ==
    /\ Len(Delivered(out, 1, {"result"})) = 2
    /\ listeners[1] = <<"cb2", "cb3">>
    /\ <<1, "result", "app">> \in handles
    /\ progressListeners[1] = <<"app">>

(* C39: updateShader called with the text that is currentShader performs  *)
(* no load on the sandbox and leaves the renderer as it was; with any      *)
(* other text, and a sandbox, it attempts the load. A text whose load      *)
(* failed is not made currentShader, so that the next call with the same   *)
(* text attempts the load again.                                           *)
C39_ResubmitNoOp ==
    [][rendererRef =>
       \A i \in EvsIn(out', ActivationTypes) :
          LET c == out'[i].code IN
          /\ (sandbox /\ c = currentShader)
                => /\ out'[i].type = "unchanged"
                   /\ sandbox' = sandbox
                   /\ currentShader' = currentShader
                   /\ loaded' = loaded
          /\ (sandbox /\ c # currentShader)
                => out'[i].type \in {"loaded", "failed"}
          /\ out'[i].type = "failed"
                => /\ currentShader' = currentShader
                   /\ currentShader' # c
                   /\ loaded' = loaded
          /\ \A j \in EvsIn(out, {"failed"}) :
                (out[j].code = c /\ sandbox)
                    => out'[i].type \in {"loaded", "failed"}]_vars

(* updateShader was called with the generated program that is current and *)
(* loaded, and skipped the load                                            *)
C39_Witness ==
    \E i \in EvsOf({"unchanged"}) :
        /\ sandbox
        /\ out[i].code = currentShader
        /\ currentShader \in Candidates
        /\ loaded = withPrecision(currentShader)

(* C40: after destroy() no resize handler of the renderer remains on the  *)
(* window, so a later resize event leaves the canvas of the destroyed      *)
(* renderer as it was; after destroy(), updateShader and setUniform change *)
(* nothing.                                                                *)
C40_DestroyReleasesListener ==
    [][(rendererRef /\ ~sandbox)
            => /\ canvasSize' = canvasSize
               /\ sandbox' = sandbox
               /\ currentShader' = currentShader
               /\ loaded' = loaded
               /\ uniforms' = uniforms]_vars

(* what does hold after destroy(): updateShader and setUniform change     *)
(* nothing                                                                 *)
C40_CallsAfterDestroy ==
    [][(rendererRef /\ ~sandbox /\ ~HasEv(out', "resize"))
            => /\ canvasSize' = canvasSize
               /\ sandbox' = sandbox
               /\ currentShader' = currentShader
               /\ loaded' = loaded
               /\ uniforms' = uniforms]_vars

(* the sum of the bins of a set of indices, counted from 0 *)
RECURSIVE BinSum(_, _)
BinSum(data, S) ==
    IF S = {} THEN 0
    ELSE LET i == CHOOSE j \in S : TRUE IN data[i + 1] + BinSum(data, S \ {i})

BinsOf(b) == {i \in 0..(Len(frequencyData) - 1) :
                 bands[b].start <= i /\ i < bands[b].end}

(* C36: for a frequency array of length n the bass, mid and high bands    *)
(* are the index ranges [0, floor(0.1 n)), [floor(0.1 n), floor(0.5 n))    *)
(* and [floor(0.5 n), n); every bin index is in exactly one band, and the  *)
(* value of a band with bins is the sum of its bins over 255 times their   *)
(* number.                                                                 *)
C36_BandPartition ==
    bands # NoBands =>
        LET n == Len(frequencyData)
            lo == bands["bass"].end
            hi == bands["mid"].end
        IN
        /\ bands["bass"].start = 0
        /\ 10 * lo <= n /\ n < 10 * (lo + 1)
        /\ bands["mid"].start = lo
        /\ 2 * hi <= n /\ n < 2 * (hi + 1)
        /\ bands["high"].start = hi
        /\ bands["high"].end = n
        /\ \A i \in 0..(n - 1) :
              Cardinality({b \in BandNames : i \in BinsOf(b)}) = 1
        /\ \A b \in BandNames :
              BinsOf(b) # {} =>
                 /\ ~bands[b].nan
                 /\ bands[b].num = BinSum(frequencyData, BinsOf(b))
                 /\ bands[b].den = 255 * Cardinality(BinsOf(b))

(* the energies of an array of MaxBins bins were computed: every band has *)
(* bins, and the bins are not all alike                                    *)
C36_Witness ==
    /\ bands # NoBands
    /\ Len(frequencyData) = MaxBins
    /\ \A b \in BandNames : BinsOf(b) # {} /\ bands[b].num > 0
    /\ bands["mid"].num # 255 * Cardinality(BinsOf("mid"))
    /\ bands["mid"].end - bands["mid"].start > 1

(* C37: for every frequency array of byte values, of every length from 0, *)
(* each of the three band energies is a defined number within [0,1], a     *)
(* band without bins included.                                             *)
C37_BandsInUnitInterval ==
    bands # NoBands =>
        \A b \in BandNames :
            /\ ~bands[b].nan
            /\ bands[b].den > 0
            /\ 0 <= bands[b].num
            /\ bands[b].num <= bands[b].den

(* what does hold: the energy of every band that has bins is in [0,1],    *)
(* and every band has bins from 10 bins on                                 *)
C37_NonEmptyBandsInUnitInterval ==
    bands # NoBands =>
        /\ \A b \in BandNames :
              ~bands[b].nan =>
                 /\ bands[b].den > 0
                 /\ 0 <= bands[b].num
                 /\ bands[b].num <= bands[b].den
        /\ Len(frequencyData) >= 10 => \A b \in BandNames : ~bands[b].nan

(* C38: a generateGLSL(audioData) call of the interval generator starts a *)
(* request only when none is in flight and updateInterval has passed since *)
(* the start of the request before; a call that does not start one changes *)
(* nothing and notifies nobody.  So at most one request is outstanding and *)
(* the starts of any two requests are updateInterval or more apart.        *)
C38_IntervalThrottle ==
    /\ [](outstandingRequests <= 1)
    /\ [](\A i, j \in DOMAIN requestTimes :
             i < j => requestTimes[j] - requestTimes[i] >= updateInterval)
    /\ [][HasEv(out', "intervalRequest")
            => /\ ~intervalGenerating
               /\ outstandingRequests = 0
               /\ \A i \in DOMAIN requestTimes :
                     now - requestTimes[i] >= updateInterval]_vars
    /\ [][HasEv(out', "throttled")
            => /\ UNCHANGED <<intervalVars, bandVars, appVars, genVars>>
               /\ EvsIn(out', IntervalResults) = {}
               /\ (intervalGenerating
                     \/ \E i \in DOMAIN requestTimes :
                           now - requestTimes[i] < updateInterval)]_vars

(* a second request was started exactly updateInterval after the first,   *)
(* whose answer had come                                                   *)
C38_Witness ==
    /\ HasEv(out, "intervalRequest")
    /\ Len(requestTimes) = 2
    /\ requestTimes[2] - requestTimes[1] = updateInterval
    /\ intervalGenerating

InvalidInputs(in) ==
    \/ ~in.hasKey
    \/ in.mode = "file" /\ ~in.hasFile
    \/ in.mode = "microphone" /\ in.promptBlank
    \/ in.mode = "file" /\ in.provider = "openai"

(* C34: startVisualization called with no API key, or in file mode with   *)
(* no file, or in microphone mode with a blank prompt, or with the OpenAI  *)
(* provider in file mode, sets an error message and changes nothing else:  *)
(* no audio source, no generator, no cycle and so no provider request, and *)
(* isRunning stays false.                                                  *)
C34_StartPreconditions ==
    [][\A i \in EvsIn(out', {"startInputs"}) :
          InvalidInputs(out'[i].code)
             => /\ error' \in {ErrApiKey, ErrAudioFile, ErrPrompt, ErrProvider}
                /\ ~isRunning /\ ~isRunning'
                /\ UNCHANGED <<audioVars, genVars, cycles, rendVars>>
                /\ UNCHANGED <<mounted, appIsGenerating, retryCount,
                               glslGeneratorRef, rendererRef, pendingRetries,
                               retryOwners, pendingRollbacks>>
                /\ EvsIn(out', {"start", "request", "sourceUnavailable"}) = {}]_vars

(* Start was pressed in microphone mode with a key and a blank prompt,    *)
(* after a session that was stopped, and was refused                       *)
C34_Witness ==
    \E i \in EvsOf({"startInputs"}) :
        /\ out[i].code.hasKey
        /\ out[i].code.mode = "microphone"
        /\ out[i].code.promptBlank
        /\ HasEv(out, "startRefused")
        /\ error = ErrPrompt
        /\ nextGen = 1
        /\ ~isRunning

(* C35: when the microphone cannot be opened, the failure is set as the   *)
(* error of the App, no analyzer is made for the source, no generator is   *)
(* constructed, no cycle starts, and isRunning stays false.                *)
C35_SourceUnavailable ==
    [][\A i \in EvsIn(out', {"startInputs"}) :
          (~InvalidInputs(out'[i].code)
              /\ out'[i].code.mode = "microphone" /\ ~out'[i].flag)
             => /\ HasEv(out', "sourceUnavailable")
                /\ error' = ErrSource
                /\ ~isRunning /\ ~isRunning'
                /\ analyzers' = analyzers
                /\ UNCHANGED <<audioVars, genVars, cycles, rendVars>>
                /\ glslGeneratorRef' = glslGeneratorRef
                /\ EvsIn(out', {"start", "request"}) = {}]_vars

(* the microphone was refused on the first Start of the App *)
C35_Witness ==
    /\ HasEv(out, "sourceUnavailable")
    /\ error = ErrSource
    /\ analyzers = 0
    /\ nextGen = 0
    /\ ~isRunning

(* C31: every audio frame pushed to the renderer is scaled by the         *)
(* sensitivity that is set when it is pushed, whatever it was when the     *)
(* subscriber was registered.                                              *)
C31_CurrentSensitivity ==
    [][\A i \in EvsIn(out', {"push"}) :
          /\ out'[i].gen = audioSensitivity
          /\ out'[i].flag
                => \A n \in UniformNames :
                      uniforms'[n] = out'[i].prev * audioSensitivity]_vars

(* a frame above 0 was pushed after the slider had been moved away from   *)
(* the position it had at Start                                            *)
C31_Witness ==
    \E i \in EvsOf({"push"}) :
        /\ out[i].flag
        /\ out[i].prev > 0
        /\ audioSensitivity # subscribedSensitivity
        /\ out[i].gen = audioSensitivity
        /\ \A n \in UniformNames : uniforms[n] = out[i].prev * audioSensitivity

(* C33: after stopVisualization the subscription made by the Start before *)
(* delivers no frame to the renderer, and while a session runs exactly one *)
(* analyzer feeds the renderer.                                            *)
C33_StopReleasesAudio ==
    /\ ~isRunning => ~HasEv(out, "push")
    /\ isRunning => analyzers = 1

====
